---- MODULE Spec2Model ----
(***************************************************************************)
(* State-machine model of Manager (src/src/Manager.cpp), the Windows       *)
(* build: the only platform branch that compiles (the Apple branch of      *)
(* installLoaderFor is an #error).                                         *)
(*                                                                         *)
(* Two specifications share the module.  SpecFetch is the download         *)
(* pipeline (webRequest, downloadLoader, downloadAPI and the transport's   *)
(* state events).  Spec is the installation registry, its state file and   *)
(* the game directories (loadData, saveData, deleteData, installLoaderFor, *)
(* installAPIFor, uninstallFrom).  The two halves share no program state.  *)
(***************************************************************************)
EXTENDS Integers, Sequences, FiniteSets, TLC

VARIABLES
    \* ---- download pipeline ----
    handlers,        \* wxEVT_WEBREQUEST_STATE handlers bound on the Manager, newest first
    fetches,         \* per fetch: which of downloadLoader/downloadAPI, and its callbacks
    reqs,            \* the wxWebRequests created so far
    calls,           \* per fetch: a summary of the callbacks invoked on it so far
    emitted,         \* the callbacks the last step invoked, in order
    lastParse,       \* what the finish lambda of the last step did, if it ran
    \* ---- registry ----
    m_installations, m_sdkDirectory, m_sdkInstalled, m_dataDirectory, m_dataLoaded,
    regKey,          \* HKLM\Software\GeodeSDK InstallInfo, or NoKey
    stateFile,       \* content of <dir>/installer.json per data directory
    fs,              \* the game directories' files
    written,         \* per data directory: the registry state saveData last wrote there
    last,            \* the last Manager operation, its arguments and its result
    ops              \* number of Manager operations so far

fetchVars == <<handlers, fetches, reqs, calls, emitted, lastParse>>
regVars == <<m_installations, m_sdkDirectory, m_sdkInstalled, m_dataDirectory,
             m_dataLoaded, regKey, stateFile, fs, written, last, ops>>
vars == <<fetchVars, regVars>>

----------------------------------------------------------------------------
(* Bounds *)
MaxActive == 1       \* State_Active events per request
MaxBytes == 1        \* bytes a request can have received
KnownSize == 1       \* the expected size, once the transport knows it

----------------------------------------------------------------------------
(* Strings are tuples of characters, so that find() is a substring search. *)

\* std::string::find(sel) != npos
Contains(name, sel) ==
    \E i \in 1..(Len(name) - Len(sel) + 1) : SubSeq(name, i, i + Len(sel) - 1) = sel

PLATFORM_ASSET_IDENTIFIER == <<"w", "i", "n">>
API_ASSET_MARKER == <<".", "g", "e", "o", "d", "e">>

Selector(kind) == IF kind = "loader" THEN PLATFORM_ASSET_IDENTIFIER ELSE API_ASSET_MARKER

NoMatchText(kind) ==
    IF kind = "loader" THEN "No release asset for Windows found"
    ELSE "No .geode file release asset found"

\* An asset of a release feed: nameOk/urlOk say whether the field is a string.
Asset(n, nOk, uOk) == [name |-> n, nameOk |-> nOk, urlOk |-> uOk]
InstWin == <<"I", "-", "w", "i", "n", ".", "z">>
InstMac == <<"I", "-", "m", "a", "c", ".", "z">>
TwoWin == <<"w", "i", "n", "2">>
ApiPkg == <<"a", ".", "g", "e", "o", "d", "e">>
WinApi == <<"w", "i", "n", ".", "g", "e", "o", "d", "e">>

\* The response bodies the release endpoint may answer with.
Feeds == <<
    [parses |-> TRUE, tagOk |-> TRUE,
     assets |-> <<Asset(InstWin, TRUE, TRUE), Asset(InstMac, TRUE, TRUE)>>],
    [parses |-> TRUE, tagOk |-> TRUE,
     assets |-> <<Asset(InstMac, TRUE, TRUE), Asset(InstWin, TRUE, TRUE),
                  Asset(TwoWin, TRUE, TRUE), Asset(ApiPkg, TRUE, TRUE),
                  Asset(WinApi, TRUE, TRUE)>>],
    [parses |-> TRUE, tagOk |-> TRUE, assets |-> <<>>],
    [parses |-> FALSE, tagOk |-> FALSE, assets |-> <<>>],
    [parses |-> TRUE, tagOk |-> FALSE, assets |-> <<Asset(InstWin, TRUE, TRUE)>>],
    [parses |-> TRUE, tagOk |-> TRUE,
     assets |-> <<Asset(InstMac, FALSE, TRUE), Asset(WinApi, TRUE, TRUE)>>],
    [parses |-> TRUE, tagOk |-> TRUE,
     assets |-> <<Asset(InstMac, TRUE, TRUE), Asset(WinApi, TRUE, FALSE)>>]
>>
FeedIds == 1..Len(Feeds)

----------------------------------------------------------------------------
(* The download pipeline *)

\* The Manager offers two fetches, downloadLoader and downloadAPI; the
\* application starts each at most once, in either order, and may start the
\* second while the first is still in flight.
FetchIds == {"loader", "api"}
NoFetch == [kind |-> "none", hasErr |-> FALSE, hasProg |-> FALSE, hasFin |-> FALSE]
\* The callbacks a caller passes: all three, or all three null.
CallbackSets == {<<TRUE, TRUE, TRUE>>, <<FALSE, FALSE, FALSE>>}

\* States after which the transport reports nothing more for a request.  The
\* code never supplies credentials, so State_Unauthorized is one of them.
FinalEvents == {"completed", "failed", "cancelled", "unauthorized"}

\* One callback invocation on fetch f, made while handling an event of request r
\* (0: made synchronously by downloadLoader/downloadAPI).
Call(f, cb, text, percent, r) ==
    [f |-> f, cb |-> cb, text |-> text, percent |-> percent, req |-> r]

\* What is remembered of the callbacks invoked on one fetch.
NoCalls == [errs |-> 0, fins |-> 0, progs |-> 0, firstPct |-> -1, lastPct |-> -1,
            finPct |-> -1, mono |-> TRUE, late |-> FALSE, foreign |-> FALSE,
            labels |-> {}, pcts |-> {}]

Inc(n) == IF n < 2 THEN n + 1 ELSE n

\* own: the event came from a request that this fetch's own code issued.
Observe(o, c, own) ==
    LET o1 == [o EXCEPT !.foreign = @ \/ ~own]
    IN  CASE c.cb = "error" -> [o1 EXCEPT !.errs = Inc(@)]
          [] c.cb = "finish" -> [o1 EXCEPT !.fins = Inc(@),
                                           !.finPct = IF o.fins = 0 THEN o.lastPct ELSE @]
          [] OTHER -> [o1 EXCEPT !.progs = Inc(@),
                                 !.firstPct = IF o.progs = 0 THEN c.percent ELSE @,
                                 !.lastPct = c.percent,
                                 !.mono = @ /\ (o.progs = 0 \/ c.percent >= o.lastPct),
                                 !.late = @ \/ o.errs + o.fins > 0,
                                 !.labels = @ \cup {c.text},
                                 !.pcts = @ \cup {c.percent}]

\* if (errorFunc) errorFunc(msg)
ErrCall(S, f, msg, r) == IF S.F[f].hasErr THEN <<Call(f, "error", msg, 0, r)>> ELSE <<>>
\* if (progressFunc) progressFunc(label, percent)
ProgCall(S, f, label, percent, r) ==
    IF S.F[f].hasProg THEN <<Call(f, "progress", label, percent, r)>> ELSE <<>>
\* if (finishFunc) finishFunc(res)
FinCall(S, f, r) == IF S.F[f].hasFin THEN <<Call(f, "finish", "", 0, r)>> ELSE <<>>

\* The pipeline state an operation works on; e collects the callbacks it invokes.
Pipe == [h |-> handlers, r |-> reqs, c |-> calls, F |-> fetches, e |-> <<>>]
Log(S, f, entries) ==
    IF entries = <<>> THEN S
    ELSE LET c == entries[1]
             own == c.req = 0 \/ S.r[c.req].by = f
         IN  [S EXCEPT !.c[f] = Observe(@, c, own), !.e = Append(@, c)]

\* Manager::webRequest.  created is request.IsOk(); trig is the request whose
\* event led here (0 for a call from downloadLoader/downloadAPI).  The handler
\* is bound on the Manager itself, for every wxEVT_WEBREQUEST_STATE event, and
\* is never unbound.  stage "meta" stands for the closure (errorFunc, nullptr,
\* the finish lambda of lines 163-190/204-231) and "asset" for the caller's
\* three callbacks.
WebRequest(S, f, stage, url, created, trig) ==
    IF ~created
    THEN Log(S, f, ErrCall(S, f, "Unable to create web request", trig))
    ELSE [S EXCEPT
            !.h = <<[f |-> f, stage |-> stage]>> \o @,
            !.r = Append(@, [url |-> url, st |-> "started", recv |-> 0, exp |-> -1,
                             actives |-> 0, by |-> f])]

\* The for loop over json["assets"]: the index of the asset it stops at and why.
RECURSIVE ScanFrom(_, _, _)
ScanFrom(assets, sel, i) ==
    IF i > Len(assets) THEN [res |-> "none", idx |-> 0]
    ELSE IF ~assets[i].nameOk THEN [res |-> "throw", idx |-> i]
    ELSE IF Contains(assets[i].name, sel)
         THEN (IF assets[i].urlOk THEN [res |-> "match", idx |-> i]
                                  ELSE [res |-> "throw", idx |-> i])
    ELSE ScanFrom(assets, sel, i + 1)

\* A mutant: the loop keeps going and the last matching asset wins.
RECURSIVE ScanLastFrom(_, _, _, _)
ScanLastFrom(assets, sel, i, found) ==
    IF i > Len(assets)
    THEN (IF found = 0 THEN [res |-> "none", idx |-> 0] ELSE [res |-> "match", idx |-> found])
    ELSE IF ~assets[i].nameOk THEN [res |-> "throw", idx |-> i]
    ELSE IF Contains(assets[i].name, sel)
         THEN (IF assets[i].urlOk THEN ScanLastFrom(assets, sel, i + 1, i)
                                  ELSE [res |-> "throw", idx |-> i])
    ELSE ScanLastFrom(assets, sel, i + 1, found)

ScanAssets_LastMatch(assets, sel) == ScanLastFrom(assets, sel, 1, 0)

ScanAssets(assets, sel) == ScanFrom(assets, sel, 1)

\* What the finish lambda of downloadLoader/downloadAPI decides for a body.
ParseOutcome(kind, feed) ==
    IF ~feed.parses \/ ~feed.tagOk THEN [res |-> "throw", idx |-> 0]
    ELSE ScanAssets(feed.assets, Selector(kind))

\* The finish lambda of downloadLoader (163-190) and downloadAPI (204-231),
\* run for fetch f on the response of request r whose body is feed fd.
FinishLambda(S, f, r, fd, created) ==
    LET kind == S.F[f].kind
        feed == Feeds[fd]
        out  == ParseOutcome(kind, feed)
        S1   == IF feed.parses /\ feed.tagOk
                THEN Log(S, f, ProgCall(S, f, "Downloading version", 0, r))
                ELSE S
    IN  CASE out.res = "match" -> WebRequest(S1, f, "asset", <<"asset", fd, out.idx>>, created, r)
          [] out.res = "none"  -> Log(S1, f, ErrCall(S, f, NoMatchText(kind), r))
          [] OTHER             -> Log(S1, f, ErrCall(S, f, "Unable to parse JSON", r))

\* What static_cast<int> may yield for a double that is not finite (the
\* conversion is undefined; INT_MIN is what x86 builds produce).
CastOutcomes == {-2147483647 - 1, 0, 2147483647}

\* static_cast<int>(static_cast<double>(received) / expected * 100.0); the
\* quotient is exact for the sizes of the model.  With expected = 0 the double
\* is infinite or NaN and the conversion yields cast.
Percent(recv, exp, cast) == IF exp = 0 THEN cast ELSE (recv * 100) \div exp

\* A mutant of the rule below: an unknown size is reported like a known one.
ActiveProgress_UnknownAsKnown(recv, exp, cast) ==
    IF exp = -1 THEN [label |-> "Downloading", percent |-> 0]
    ELSE [label |-> "Downloading", percent |-> Percent(recv, exp, cast)]

\* State_Active, lines 74-83: the label and percent passed to progressFunc.
ActiveProgress(recv, exp, cast) ==
    IF exp = -1 THEN [label |-> "Beginning download", percent |-> 0]
    ELSE [label |-> "Downloading", percent |-> Percent(recv, exp, cast)]

\* The handler bound by webRequest (lines 56-102) for handler h, run on an event
\* ev of request r (r's fields already updated by the transport).
HandleEvent(S, h, r, ev) ==
    LET f == h.f
        prog == h.stage = "asset"    \* the metadata request passes nullptr
    IN  CASE ev.state = "completed" ->
                IF ~ev.resOk THEN Log(S, f, ErrCall(S, f, "Web request returned not OK", r))
                ELSE IF ev.status # 200 THEN Log(S, f, ErrCall(S, f, "Web request returned status", r))
                ELSE IF h.stage = "meta" THEN FinishLambda(S, f, r, ev.body, ev.created)
                ELSE Log(S, f, FinCall(S, f, r))
          [] ev.state = "active" ->
                IF ~prog THEN S
                ELSE LET p == ActiveProgress(S.r[r].recv, S.r[r].exp, ev.cast)
                     IN  Log(S, f, ProgCall(S, f, p.label, p.percent, r))
          [] ev.state = "idle" ->
                IF prog THEN Log(S, f, ProgCall(S, f, "Waiting", 0, r)) ELSE S
          [] ev.state = "unauthorized" -> Log(S, f, ErrCall(S, f, "Unauthorized to do web request", r))
          [] ev.state = "failed" -> Log(S, f, ErrCall(S, f, "Web request failed", r))
          [] OTHER -> Log(S, f, ErrCall(S, f, "Web request cancelled", r))

Event(state) ==
    [state |-> state, resOk |-> FALSE, status |-> 0, body |-> 1, created |-> FALSE, cast |-> 0]

\* wxEvtHandler dispatch: the most recently bound handler of the event type
\* handles the event; it does not Skip(), so no older handler sees it.
Dispatch(S, r, ev) == HandleEvent(S, Head(S.h), r, ev)

SetPipe(S) == /\ handlers' = S.h
              /\ reqs' = S.r
              /\ calls' = S.c
              /\ fetches' = S.F
              /\ emitted' = S.e

NoParse == [f |-> "none", kind |-> "none", feed |-> 0, req |-> 0, res |-> "none", idx |-> 0,
            added |-> 0, url |-> <<>>]

\* downloadLoader (153-192) / downloadAPI (194-233) called by the application
StartFetch(kind) ==
    \E f \in {kind}, cbs \in CallbackSets, created \in BOOLEAN :
        /\ fetches[f].kind = "none"
        /\ SetPipe(WebRequest(
              [Pipe EXCEPT !.F[f] = [kind |-> kind, hasErr |-> cbs[1],
                                     hasProg |-> cbs[2], hasFin |-> cbs[3]]],
              f, "meta", <<"feed", kind, 0>>, created, 0))
        /\ lastParse' = NoParse
        /\ UNCHANGED regVars

DownloadLoader == StartFetch("loader")
DownloadAPI == StartFetch("api")

Live(r) == r \in 1..Len(reqs) /\ reqs[r].st # "done"

\* A request that reached a final state: nothing reads its state or its byte
\* counts any more.
Ended(req) == [req EXCEPT !.st = "done", !.recv = 0, !.exp = -1, !.actives = 0]

\* State_Idle reported for a request that has not become active yet
EvIdle ==
    \E r \in 1..Len(reqs) :
        /\ reqs[r].st = "started"
        /\ SetPipe(Dispatch([Pipe EXCEPT !.r[r].st = "idle"], r, Event("idle")))
        /\ lastParse' = NoParse
        /\ UNCHANGED regVars

\* State_Active: the request became active, or the transport has news of it
\* (more bytes received, or the expected size learnt)
EvActive ==
    \E r \in 1..Len(reqs), recv \in 0..MaxBytes, exp \in {-1, KnownSize} :
        /\ Live(r)
        /\ reqs[r].actives < MaxActive
        /\ recv >= reqs[r].recv
        /\ reqs[r].exp # -1 => exp = reqs[r].exp
        /\ reqs[r].st # "active" \/ recv > reqs[r].recv \/ exp # reqs[r].exp
        /\ SetPipe(Dispatch([Pipe EXCEPT !.r[r] = [@ EXCEPT !.st = "active", !.recv = recv,
                                                             !.exp = exp, !.actives = @ + 1]],
                            r, Event("active")))
        /\ lastParse' = NoParse
        /\ UNCHANGED regVars

\* State_Completed with the response the server gave
EvCompleted ==
    \E r \in 1..Len(reqs), resOk \in BOOLEAN, status \in {200, 204}, body \in FeedIds,
       created \in BOOLEAN :
        /\ Live(r)
        /\ ~resOk => status = 200 /\ body = 1 /\ ~created
        /\ status # 200 => body = 1 /\ ~created
        /\ LET h == Head(handlers)
               ev == [state |-> "completed", resOk |-> resOk, status |-> status,
                      body |-> body, created |-> created, cast |-> 0]
               runsLambda == resOk /\ status = 200 /\ h.stage = "meta"
               out == ParseOutcome(fetches[h.f].kind, Feeds[body])
               S1 == Dispatch([Pipe EXCEPT !.r[r] = Ended(@)], r, ev)
           IN  /\ ~runsLambda => body = 1 /\ ~created
               /\ runsLambda /\ out.res # "match" => ~created
               /\ SetPipe(S1)
               /\ lastParse' =
                    IF runsLambda
                    THEN [f |-> h.f, kind |-> fetches[h.f].kind, feed |-> body, req |-> r,
                          res |-> out.res, idx |-> out.idx,
                          added |-> Len(S1.r) - Len(reqs),
                          url |-> IF Len(S1.r) > Len(reqs) THEN S1.r[Len(S1.r)].url ELSE <<>>]
                    ELSE NoParse
        /\ UNCHANGED regVars

\* State_Failed, State_Cancelled or State_Unauthorized
EvAborted ==
    \E r \in 1..Len(reqs), state \in {"failed", "cancelled", "unauthorized"} :
        /\ Live(r)
        /\ SetPipe(Dispatch([Pipe EXCEPT !.r[r] = Ended(@)], r, Event(state)))
        /\ lastParse' = NoParse
        /\ UNCHANGED regVars

InitPipe ==
    /\ handlers = <<>>
    /\ fetches = [f \in FetchIds |-> NoFetch]
    /\ reqs = <<>>
    /\ calls = [f \in FetchIds |-> NoCalls]
    /\ emitted = <<>>
    /\ lastParse = NoParse

NextFetch == DownloadLoader \/ DownloadAPI \/ EvIdle \/ EvActive \/ EvCompleted \/ EvAborted

----------------------------------------------------------------------------
(* The registry, its state file and the game directories *)

MaxOps == 4          \* Manager operations in one run

PathOrder == <<"gdA", "gdB">>                  \* game directories, in path order
ExeOrder == <<"GD2.exe", "GeometryDash.exe">>  \* game-executable file names
GamePaths == {PathOrder[i] : i \in 1..Len(PathOrder)}
Exes == {ExeOrder[i] : i \in 1..Len(ExeOrder)}
Rank(order, x) == CHOOSE i \in 1..Len(order) : order[i] = x
DefaultDataDir == "dataDefault"                \* getDefaultDataDirectory()
DefaultSDKDir == "sdkDefault"                  \* getDefaultSDKDirectory()
DataPaths == {DefaultDataDir, "dataAlt"}
SdkPaths == {DefaultSDKDir, "sdkCustom"}
NoKey == "nokey"                               \* the registry value does not exist
Unset == ""                                    \* a default-constructed path

Installation(path, exe) == [path |-> path, exe |-> exe]
NoInst == Installation("", "")

\* Installation::operator<: installations are ordered by their path alone, so
\* two with the same path are equivalent keys of the std::set.
InstEquiv(a, b) == a.path = b.path

\* A mutant of the insert below: a container that keeps equivalent keys.
SetInsert_Duplicating(S, inst) == S \cup {inst}

\* std::set<Installation>::insert: no effect when an equivalent key is present.
SetInsert(S, inst) == IF \E i \in S : InstEquiv(i, inst) THEN S ELSE S \cup {inst}

\* The state of a Manager after construction.
Constructed ==
    [installations |-> {}, sdkDirectory |-> Unset, sdkInstalled |-> FALSE,
     dataDirectory |-> Unset, dataLoaded |-> FALSE]

IsFresh ==
    /\ m_installations = Constructed.installations
    /\ m_sdkDirectory = Constructed.sdkDirectory
    /\ m_sdkInstalled = Constructed.sdkInstalled
    /\ m_dataDirectory = Constructed.dataDirectory
    /\ m_dataLoaded = Constructed.dataLoaded

\* Manager::isFirstTime
isFirstTime == ~m_dataLoaded

\* Manager::isSDKInstalled
isSDKInstalled == m_sdkInstalled

(* installer.json.  kind: "nodir" (the data directory does not exist),       *)
(* "missing" (the directory exists, the file does not), "garbage" (not JSON, *)
(* or not a JSON object) or "json".  sdk: "absent", "null", "notstring" or   *)
(* the path.  A record's field is "BAD" when it is missing or not a string.  *)
File(kind, sdk, insts) == [kind |-> kind, sdk |-> sdk, insts |-> insts]
NoDir == File("nodir", "absent", <<>>)
Missing == File("missing", "absent", <<>>)
Garbage == File("garbage", "absent", <<>>)
Rec(path, exe) == [path |-> path, exe |-> exe]

\* The state files a run may start from.
InitFiles == {
    NoDir,
    Missing,
    Garbage,
    File("json", "absent", <<>>),
    File("json", "sdkCustom", <<Rec("gdA", "GeometryDash.exe")>>),
    File("json", "null", <<Rec("gdA", "GeometryDash.exe"), Rec("gdB", "BAD")>>),
    File("json", "sdkCustom", <<Rec("BAD", "GD2.exe"), Rec("gdB", "GD2.exe")>>),
    File("json", "notstring", <<Rec("gdB", "GD2.exe")>>),
    File("json", "absent", <<Rec("gdA", "GeometryDash.exe"), Rec("gdA", "GD2.exe")>>)
}

Malformed(file) ==
    \/ file.kind = "garbage"
    \/ /\ file.kind = "json"
       /\ \/ file.sdk = "notstring"
          \/ \E i \in 1..Len(file.insts) :
                file.insts[i].path = "BAD" \/ file.insts[i].exe = "BAD"

\* The for loop of loadData (333-338) from record i on: the set it has built
\* when it ends or when get<std::string>() throws.
RECURSIVE LoadRecords(_, _, _)
LoadRecords(recs, i, S) ==
    IF i > Len(recs) THEN [ok |-> TRUE, insts |-> S]
    ELSE IF recs[i].path = "BAD" \/ recs[i].exe = "BAD" THEN [ok |-> FALSE, insts |-> S]
    ELSE LoadRecords(recs, i + 1, SetInsert(S, Installation(recs[i].path, recs[i].exe)))

\* The try block of loadData (327-341) on the text of the file; R is the
\* Manager's fields when it starts.
ParseStateFile(file, R) ==
    IF file.kind = "garbage" THEN [R EXCEPT !.ok = FALSE]
    ELSE IF file.sdk = "notstring" THEN [R EXCEPT !.ok = FALSE]
    ELSE LET R1 == IF file.sdk \notin {"absent", "null"}
                   THEN [R EXCEPT !.sdkDirectory = file.sdk, !.sdkInstalled = TRUE]
                   ELSE R
             L == LoadRecords(file.insts, 1, R1.installations)
         IN  [R1 EXCEPT !.ok = L.ok, !.installations = L.insts]

\* A mutant of the rule below: the Apple branch, which sets m_dataLoaded always.
DataLoadedAfter_Always(loaded, key) == TRUE

\* loadData 305-311: m_dataLoaded is set when the registry value exists, and
\* nothing ever clears it.
DataLoadedAfter(loaded, key) == loaded \/ key # NoKey

\* loadData 300, 305-310: the data directory is the registry value if there is one.
DataDirAfter(key) == IF key # NoKey THEN key ELSE DefaultDataDir

PathsOf(S) == {i.path : i \in S}

\* std::set iteration order: ascending path (the set holds no two
\* installations of one path; the exe only orders what a set could not hold).
Before(a, b) ==
    \/ Rank(PathOrder, a.path) < Rank(PathOrder, b.path)
    \/ a.path = b.path /\ Rank(ExeOrder, a.exe) < Rank(ExeOrder, b.exe)

RECURSIVE InOrder(_)
InOrder(S) ==
    IF S = {} THEN <<>>
    ELSE LET m == CHOOSE i \in S : \A j \in S \ {i} : Before(i, j)
         IN  <<m>> \o InOrder(S \ {m})

\* A mutant of the document below: the sdk path is written whether or not the
\* SDK is installed.
StateDocument_AlwaysSdk(insts, sdkInstalled, sdkDirectory) ==
    LET seq == InOrder(insts)
    IN  File("json", sdkDirectory, [i \in 1..Len(seq) |-> Rec(seq[i].path, seq[i].exe)])

\* saveData 357-368: the JSON document built from the Manager's fields.
StateDocument(insts, sdkInstalled, sdkDirectory) ==
    LET seq == InOrder(insts)
    IN  File("json", IF sdkInstalled THEN sdkDirectory ELSE "absent",
             [i \in 1..Len(seq) |-> Rec(seq[i].path, seq[i].exe)])

NotWritten == [valid |-> FALSE, insts |-> {}, sdkInstalled |-> FALSE, sdkDirectory |-> Unset]

(* Files.  A path is a sequence of components; a node is "none", "dir" or   *)
(* the content of a file.                                                  *)
Entry(name, isDir, data, canRead) ==
    [name |-> name, isDir |-> isDir, data |-> data, canRead |-> canRead, streams |-> "all"]

\* A file entry that can be opened (CanRead) but whose data stops decompressing
\* part-way through zip.Read(out).  What the stream yields next is the zip
\* library's business: "cut" (GetNextEntry goes on to the next entry) or
\* "cutEnd" (GetNextEntry returns null).
CutEntry(name, data, how) ==
    [name |-> name, isDir |-> FALSE, data |-> data, canRead |-> TRUE, streams |-> how]

\* The archives: a loader release, damaged ones, and ones built by a third party.
Zips == [
    loader |-> [opens |-> TRUE, entries |-> <<
        Entry(<<"geode">>, TRUE, "", TRUE),
        Entry(<<"XInput9_1_0.dll">>, FALSE, "xinput", TRUE),
        Entry(<<"Geode.dll">>, FALSE, "loader", TRUE)>>],
    broken |-> [opens |-> TRUE, entries |-> <<
        Entry(<<"XInput9_1_0.dll">>, FALSE, "xinput", TRUE),
        Entry(<<"Geode.dll">>, FALSE, "loader", FALSE),
        Entry(<<"geode">>, TRUE, "", TRUE)>>],
    absent |-> [opens |-> FALSE, entries |-> <<>>],
    twice |-> [opens |-> TRUE, entries |-> <<
        Entry(<<"geode">>, TRUE, "", TRUE),
        Entry(<<"Geode.dll">>, FALSE, "old", TRUE),
        Entry(<<"geode", "mods", "api.geode">>, FALSE, "api", TRUE),
        Entry(<<"Geode.dll">>, FALSE, "loader", TRUE)>>],
    cut |-> [opens |-> TRUE, entries |-> <<
        CutEntry(<<"XInput9_1_0.dll">>, "xinput", "cut"),
        Entry(<<"Geode.dll">>, FALSE, "loader", TRUE)>>],
    cutEnd |-> [opens |-> TRUE, entries |-> <<
        CutEntry(<<"XInput9_1_0.dll">>, "xinput", "cutEnd"),
        Entry(<<"Geode.dll">>, FALSE, "loader", TRUE)>>],
    slip |-> [opens |-> TRUE, entries |-> <<
        Entry(<<"Geode.dll">>, FALSE, "loader", TRUE),
        Entry(<<"..", "slip.dll">>, FALSE, "slip", TRUE)>>]
]
\* The archives installLoaderFor is given in Spec.
ZipNames == {"loader", "broken", "absent"}

\* The path the operating system opens for p: ".." steps back one component.
RECURSIVE ResolveFrom(_, _, _)
ResolveFrom(p, i, acc) ==
    IF i > Len(p) THEN acc
    ELSE IF p[i] = ".."
         THEN ResolveFrom(p, i + 1, IF acc = <<>> THEN acc ELSE SubSeq(acc, 1, Len(acc) - 1))
    ELSE ResolveFrom(p, i + 1, Append(acc, p[i]))

Resolve(p) == ResolveFrom(p, 1, <<>>)

GeodeDir(g) == <<g, "geode">>
ModsDir(g) == <<g, "geode", "mods">>
ApiFile(g) == <<g, "geode", "mods", "api.geode">>
XInputDll(g) == <<g, "XInput9_1_0.dll">>
GeodeDll(g) == <<g, "Geode.dll">>

\* The files doesDirectoryContainOtherMods looks for (589-606), besides
\* Geode.dll and XInput9_1_0.dll.
MarkerFiles == {"absoluteldr.dll", "hackproldr.dll", "ToastedMarshmellow.dll",
                "quickldr.dll", "GDDLLLoader.dll", "ModLdr.dll", "minhook.dll"}

\* The SDK directory (m_sdkDirectory as a path) and a file of the SDK in it.
SdkDir(p) == <<p>>
SdkFile(p) == <<p, "sdk.lib">>

Prefixes(p) == {SubSeq(p, 1, k) : k \in 1..Len(p)}
\* The paths the entries of the archives zs name, under every game directory.
ArchivePaths(zs) ==
    UNION {UNION {Prefixes(Resolve(<<g>> \o Zips[z].entries[i].name)) :
                    i \in 1..Len(Zips[z].entries)} :
             g \in GamePaths, z \in zs}

\* The paths the runs of Spec can read or write.
LoaderPaths ==
    {SdkDir(p) : p \in SdkPaths} \cup {SdkFile(p) : p \in SdkPaths}
    \cup UNION {Prefixes(ApiFile(g)) \cup {XInputDll(g), GeodeDll(g)} : g \in GamePaths}
    \cup ArchivePaths(ZipNames)

\* All paths of the model: also the other tools' files, what the third-party
\* archives name, and the directory the game directories are in.
AllPaths ==
    LoaderPaths
    \cup ArchivePaths(DOMAIN Zips)
    \cup {<<g, n>> : g \in GamePaths, n \in MarkerFiles}
    \cup {<<>>}

IsPrefix(p, q) == Len(p) <= Len(q) /\ SubSeq(q, 1, Len(p)) = p
Exists(F, p) == F[p] # "none"
Parent(p) == SubSeq(p, 1, Len(p) - 1)

\* wxFileName::Mkdir(dir, mode, wxPATH_MKDIR_FULL) from component k on: it
\* creates the missing directories of the path and stops at a component that
\* is a file.
RECURSIVE MkdirFrom(_, _, _)
MkdirFrom(F, dir, k) ==
    IF k > Len(dir) THEN F
    ELSE LET pre == SubSeq(dir, 1, k)
         IN  IF F[pre] = "none" THEN MkdirFrom([F EXCEPT ![pre] = "dir"], dir, k + 1)
             ELSE IF F[pre] = "dir" THEN MkdirFrom(F, dir, k + 1)
             ELSE F

\* unzipTo 129-131
EnsureDir(F, dir) == IF F[dir] = "dir" THEN F ELSE MkdirFrom(F, dir, 1)

\* wxFileOutputStream out(path); out.IsOk()
CanCreate(F, path) == F[Parent(path)] = "dir" /\ F[path] # "dir"

\* The while loop of unzipTo (119-149) from entry i on.
RECURSIVE UnzipFrom(_, _, _, _)
UnzipFrom(F, target, entries, i) ==
    IF i > Len(entries) THEN [ok |-> TRUE, err |-> "", at |-> 0, fs |-> F]
    ELSE LET e == entries[i]
             path == Resolve(target \o e.name)
             F1 == EnsureDir(F, IF e.isDir THEN path ELSE Parent(path))
         IN  IF e.isDir THEN UnzipFrom(F1, target, entries, i + 1)
             ELSE IF ~e.canRead
                  THEN [ok |-> FALSE, err |-> "Unable to read the zip entry", at |-> i, fs |-> F1]
             ELSE IF ~CanCreate(F1, path)
                  THEN [ok |-> FALSE, err |-> "Unable to create file", at |-> i, fs |-> F1]
             ELSE IF e.streams = "all"
                  THEN UnzipFrom([F1 EXCEPT ![path] = e.data], target, entries, i + 1)
             \* zip.Read(out), line 148: its outcome is not looked at
             ELSE IF e.streams = "cut"
                  THEN UnzipFrom([F1 EXCEPT ![path] = "partial"], target, entries, i + 1)
             ELSE [ok |-> TRUE, err |-> "", at |-> 0, fs |-> [F1 EXCEPT ![path] = "partial"]]

\* Manager::unzipTo
unzipTo(F, zip, target) ==
    IF ~Zips[zip].opens THEN [ok |-> FALSE, err |-> "Unable to open zip", at |-> 0, fs |-> F]
    ELSE UnzipFrom(F, target, Zips[zip].entries, 1)

\* ghc::filesystem::remove_all / remove of an existing path
RemoveAll(F, p) == [q \in DOMAIN F |-> IF IsPrefix(p, q) THEN "none" ELSE F[q]]

\* A mutant of uninstallFrom's files: Geode.dll is left behind.
UninstallFiles_KeepsDll(F, g) ==
    LET F1 == IF Exists(F, GeodeDir(g)) THEN RemoveAll(F, GeodeDir(g)) ELSE F
    IN  IF Exists(F1, XInputDll(g)) THEN RemoveAll(F1, XInputDll(g)) ELSE F1

\* uninstallFrom 484-493
UninstallFiles(F, g) ==
    LET F1 == IF Exists(F, GeodeDir(g)) THEN RemoveAll(F, GeodeDir(g)) ELSE F
        F2 == IF Exists(F1, XInputDll(g)) THEN RemoveAll(F1, XInputDll(g)) ELSE F1
    IN  IF Exists(F2, GeodeDll(g)) THEN RemoveAll(F2, GeodeDll(g)) ELSE F2

LoaderFilesAbsent(F, g) ==
    /\ \A q \in DOMAIN F : IsPrefix(GeodeDir(g), q) => F[q] = "none"
    /\ F[XInputDll(g)] = "none"
    /\ F[GeodeDll(g)] = "none"

\* installLoaderFor 441
LoaderUnzipError(e) == "Loader unzip error: " \o e

\* A mutant of the rule below: the record is inserted before the result of the
\* extraction is looked at.
InstallationsAfter_Always(unzipped, S, inst) == SetInsert(S, inst)

\* installLoaderFor 439-450: the early return on a failed extraction, else the insert.
InstallationsAfter(unzipped, S, inst) == IF unzipped THEN SetInsert(S, inst) ELSE S

\* What is remembered of the last Manager operation.
NoOp == [op |-> "none", ok |-> TRUE, err |-> "", dir |-> "", inst |-> NoInst,
         hadPath |-> FALSE, instsChanged |-> FALSE, fsChanged |-> FALSE, fresh |-> FALSE,
         file |-> "", malformed |-> FALSE, repeat |-> FALSE, undone |-> FALSE,
         zip |-> "", at |-> 0, before |-> <<>>, flags |-> {}]

Count == /\ ops < MaxOps
         /\ ops' = ops + 1

\* Manager::loadData.  readable: the ifstream of an existing file opens.
loadData ==
    \E readable \in BOOLEAN :
        LET dir == DataDirAfter(regKey)
            file == stateFile[dir]
            exists == file.kind \in {"garbage", "json"}
            R0 == [ok |-> TRUE, installations |-> m_installations,
                   sdkDirectory |-> DefaultSDKDir, sdkInstalled |-> m_sdkInstalled]
            R == IF ~exists THEN R0
                 ELSE IF ~readable THEN [R0 EXCEPT !.ok = FALSE]
                 ELSE ParseStateFile(file, R0)
        IN  /\ Count
            /\ ~exists => readable
            /\ m_dataDirectory' = dir
            /\ m_dataLoaded' = DataLoadedAfter(m_dataLoaded, regKey)
            /\ m_sdkDirectory' = R.sdkDirectory
            /\ m_sdkInstalled' = R.sdkInstalled
            /\ m_installations' = R.installations
            /\ last' = [NoOp EXCEPT
                          !.op = "loadData", !.ok = R.ok, !.dir = dir, !.fresh = IsFresh,
                          !.err = IF R.ok THEN "" ELSE "Unable to load installation info",
                          !.file = IF ~exists THEN "missing"
                                   ELSE IF ~readable THEN "unreadable" ELSE file.kind,
                          !.malformed = exists /\ readable /\ Malformed(file),
                          !.instsChanged = R.installations # m_installations]
            /\ UNCHANGED <<regKey, stateFile, fs, written, fetchVars>>

\* Manager::saveData.  The outcome says which step fails, if any.
saveData ==
    \E outcome \in {"ok", "mkdirFail", "openFail", "keyCreateFail", "keySetFail"} :
        LET dir == m_dataDirectory
            file == stateFile[dir]
            doc == StateDocument(m_installations, m_sdkInstalled, m_sdkDirectory)
            wrote == outcome \in {"ok", "keyCreateFail", "keySetFail"}
        IN  /\ Count
            /\ dir # Unset
            /\ outcome = "mkdirFail" => file.kind = "nodir"
            /\ stateFile' = [stateFile EXCEPT ![dir] =
                                IF wrote THEN doc
                                ELSE IF outcome = "openFail" /\ file.kind = "nodir" THEN Missing
                                ELSE @]
            /\ written' = [written EXCEPT ![dir] =
                                IF wrote
                                THEN [valid |-> TRUE, insts |-> m_installations,
                                      sdkInstalled |-> m_sdkInstalled,
                                      sdkDirectory |-> m_sdkDirectory]
                                ELSE @]
            /\ regKey' = IF outcome = "ok" THEN dir ELSE regKey
            /\ last' = [NoOp EXCEPT
                          !.op = "saveData", !.ok = outcome = "ok", !.dir = dir,
                          !.err = CASE outcome = "ok" -> ""
                                    [] outcome = "mkdirFail" -> "Unable to create GeodeSDK directory"
                                    [] outcome = "openFail" -> "Can't save file"
                                    [] outcome = "keyCreateFail" -> "Unable to create Registry Key"
                                    [] OTHER -> "Unable to save Registry Key"]
            /\ UNCHANGED <<m_installations, m_sdkDirectory, m_sdkInstalled, m_dataDirectory,
                           m_dataLoaded, fs, fetchVars>>

\* Manager::deleteData.  The outcome says which step fails, if any; the
\* directory is removed only after the key is.
deleteData ==
    \E outcome \in {"ok", "keyFail", "removeFail"} :
        LET dir == m_dataDirectory
            removed == outcome = "ok" /\ stateFile[dir].kind # "nodir"
        IN  /\ Count
            /\ dir # Unset
            /\ outcome = "removeFail" => stateFile[dir].kind # "nodir"
            /\ regKey' = IF outcome = "keyFail" THEN regKey ELSE NoKey
            /\ stateFile' = IF removed THEN [stateFile EXCEPT ![dir] = NoDir] ELSE stateFile
            /\ written' = IF removed THEN [written EXCEPT ![dir] = NotWritten] ELSE written
            /\ last' = [NoOp EXCEPT
                          !.op = "deleteData", !.ok = outcome = "ok", !.dir = dir,
                          !.err = CASE outcome = "ok" -> ""
                                    [] outcome = "keyFail" -> "Unable to delete registry key"
                                    [] OTHER -> "Unable to delete Geode directory"]
            /\ UNCHANGED <<m_installations, m_sdkDirectory, m_sdkInstalled, m_dataDirectory,
                           m_dataLoaded, fs, fetchVars>>

\* Manager::setSDKDirectory
setSDKDirectory ==
    \E path \in SdkPaths :
        /\ Count
        /\ m_sdkDirectory' = path
        /\ last' = [NoOp EXCEPT !.op = "setSDKDirectory"]
        /\ UNCHANGED <<m_installations, m_sdkInstalled, m_dataDirectory, m_dataLoaded,
                       regKey, stateFile, fs, written, fetchVars>>

\* Manager::installLoaderFor(gdExePath = g/exe, zipLocation = zip)
installLoaderFor ==
    \E g \in GamePaths, exe \in Exes, zip \in ZipNames :
        LET inst == Installation(g, exe)      \* filename() and parent_path()
            ures == unzipTo(fs, zip, <<g>>)
            after == InstallationsAfter(ures.ok, m_installations, inst)
        IN  /\ Count
            /\ fs' = ures.fs
            /\ m_installations' = after
            /\ last' = [NoOp EXCEPT
                          !.op = "installLoaderFor", !.ok = ures.ok, !.dir = g,
                          !.err = IF ures.ok THEN "" ELSE LoaderUnzipError(ures.err),
                          !.inst = IF ures.ok THEN inst ELSE NoInst,
                          !.hadPath = g \in PathsOf(m_installations),
                          !.instsChanged = after # m_installations,
                          !.fsChanged = ures.fs # fs]
            /\ UNCHANGED <<m_sdkDirectory, m_sdkInstalled, m_dataDirectory, m_dataLoaded,
                           regKey, stateFile, written, fetchVars>>

\* Manager::installAPIFor(inst, zipLocation, "api.geode").  copied: copy_file
\* succeeds (it throws when the downloaded file is gone).
installAPIFor ==
    \E g \in GamePaths, copied \in BOOLEAN :
        LET F1 == IF Exists(fs, ModsDir(g)) THEN fs ELSE MkdirFrom(fs, ModsDir(g), 1)
            F2 == IF copied THEN [F1 EXCEPT ![ApiFile(g)] = "api"] ELSE F1
        IN  /\ Count
            /\ fs' = F2
            /\ last' = [NoOp EXCEPT
                          !.op = "installAPIFor", !.ok = copied, !.dir = g,
                          !.err = IF copied THEN "" ELSE "Unable to copy Geode API",
                          !.fsChanged = F2 # fs]
            /\ UNCHANGED <<m_installations, m_sdkDirectory, m_sdkInstalled, m_dataDirectory,
                           m_dataLoaded, regKey, stateFile, written, fetchVars>>

\* A mutant of the rule below: uninstallFrom also erases the record of the
\* directory it cleans.
RecordsAfterUninstall_Erases(S, g) == {i \in S : i.path # g}

\* uninstallFrom 481-494 names no member of the Manager: the set is as it was.
RecordsAfterUninstall(S, g) == S

\* Manager::uninstallFrom(inst): only inst.m_path is read.
uninstallFrom ==
    \E g \in GamePaths :
        LET F1 == UninstallFiles(fs, g)
        IN  /\ Count
            /\ fs' = F1
            /\ last' = [NoOp EXCEPT
                          !.op = "uninstallFrom", !.ok = TRUE, !.dir = g,
                          !.fsChanged = F1 # fs,
                          !.repeat = last.op = "uninstallFrom" /\ last.dir = g,
                          !.undone = last.op = "uninstallFrom" /\ last.dir = g
                                     /\ last.fsChanged]
            /\ m_installations' = RecordsAfterUninstall(m_installations, g)
            /\ UNCHANGED <<m_sdkDirectory, m_sdkInstalled, m_dataDirectory,
                           m_dataLoaded, regKey, stateFile, written, fetchVars>>

\* ghc::filesystem::exists(m_sdkDirectory); false for the empty path
SdkExists(F, p) == p # Unset /\ F[SdkDir(p)] # "none"

\* Manager::uninstallSDK.  removed: remove_all reports that it removed
\* something (it does whenever it returns for a directory that exists).
uninstallSDK ==
    \E removed \in BOOLEAN :
        LET there == SdkExists(fs, m_sdkDirectory)
            F1 == IF there /\ removed THEN RemoveAll(fs, SdkDir(m_sdkDirectory)) ELSE fs
        IN  /\ Count
            /\ ~there => removed
            /\ fs' = F1
            /\ last' = [NoOp EXCEPT
                          !.op = "uninstallSDK", !.ok = ~there \/ removed,
                          !.dir = m_sdkDirectory,
                          !.err = IF ~there \/ removed THEN ""
                                  ELSE "Unable to delete Geode directory",
                          !.fsChanged = F1 # fs]
            /\ UNCHANGED <<m_installations, m_sdkDirectory, m_sdkInstalled, m_dataDirectory,
                           m_dataLoaded, regKey, stateFile, written, fetchVars>>

\* The installer exits and is started again: a new Manager, the same disk.
Restart ==
    /\ Count
    /\ ~IsFresh
    /\ m_installations' = Constructed.installations
    /\ m_sdkDirectory' = Constructed.sdkDirectory
    /\ m_sdkInstalled' = Constructed.sdkInstalled
    /\ m_dataDirectory' = Constructed.dataDirectory
    /\ m_dataLoaded' = Constructed.dataLoaded
    /\ last' = [NoOp EXCEPT !.op = "restart"]
    /\ UNCHANGED <<regKey, stateFile, fs, written, fetchVars>>

\* The disk when the installer starts: the game directories exist; an SDK is
\* unpacked in the custom SDK directory and none in the default one.
Disk(paths) ==
    [p \in paths |->
        IF p \in {<<>>} \cup {<<g>> : g \in GamePaths} \cup {SdkDir("sdkCustom")} THEN "dir"
        ELSE IF p = SdkFile("sdkCustom") THEN "sdk"
        ELSE "none"]
CleanDir == Disk(LoaderPaths)
InitDirs == {
    CleanDir,
    [CleanDir EXCEPT ![GeodeDir("gdA")] = "dir", ![ModsDir("gdA")] = "dir",
                     ![ApiFile("gdA")] = "api", ![XInputDll("gdA")] = "xinput",
                     ![GeodeDll("gdA")] = "loader"]
}

InitReg ==
    /\ m_installations = Constructed.installations
    /\ m_sdkDirectory = Constructed.sdkDirectory
    /\ m_sdkInstalled = Constructed.sdkInstalled
    /\ m_dataDirectory = Constructed.dataDirectory
    /\ m_dataLoaded = Constructed.dataLoaded
    /\ regKey \in {NoKey} \cup DataPaths
    /\ \E f \in InitFiles :
          stateFile = [d \in DataPaths |-> IF d = DataDirAfter(regKey) THEN f ELSE NoDir]
    /\ fs \in InitDirs
    /\ written = [d \in DataPaths |-> NotWritten]
    /\ last = NoOp
    /\ ops = 0

Init == InitPipe /\ InitReg

Next == \/ loadData
        \/ saveData
        \/ deleteData
        \/ setSDKDirectory
        \/ installLoaderFor
        \/ installAPIFor
        \/ uninstallFrom
        \/ Restart

Spec == Init /\ [][Next]_vars

\* The SDK's life: found by loadData, moved, removed, saved, and the installer
\* started again.
NextSdk == \/ loadData
           \/ saveData
           \/ setSDKDirectory
           \/ uninstallSDK
           \/ Restart

SpecSdk == Init /\ [][NextSdk]_vars

\* The download pipeline on its own: the registry stays as constructed.
InitFetch ==
    /\ InitPipe
    /\ m_installations = Constructed.installations
    /\ m_sdkDirectory = Constructed.sdkDirectory
    /\ m_sdkInstalled = Constructed.sdkInstalled
    /\ m_dataDirectory = Constructed.dataDirectory
    /\ m_dataLoaded = Constructed.dataLoaded
    /\ regKey = NoKey
    /\ stateFile = [d \in DataPaths |-> NoDir]
    /\ fs = CleanDir
    /\ written = [d \in DataPaths |-> NotWritten]
    /\ last = NoOp
    /\ ops = 0

SpecFetch == InitFetch /\ [][NextFetch]_vars

----------------------------------------------------------------------------
(* The operations on a game directory's files, over more archives and more *)
(* directory contents than the registry's runs need                        *)

MaxFileOps == 2      \* extractions and inspections in one run

\* Manager::doesDirectoryContainOtherMods, Windows branch: the flags set.
OtherModFlags(F, g) ==
    (IF Exists(F, <<g, "absoluteldr.dll">>) THEN {"OMF_MHv6"} ELSE {})
    \cup (IF Exists(F, <<g, "hackproldr.dll">>) THEN {"OMF_MHv7"} ELSE {})
    \cup (IF Exists(F, <<g, "ToastedMarshmellow.dll">>) THEN {"OMF_GDHM"} ELSE {})
    \cup (IF \/ Exists(F, <<g, "Geode.dll">>)
             \/ Exists(F, <<g, "quickldr.dll">>)
             \/ Exists(F, <<g, "GDDLLLoader.dll">>)
             \/ Exists(F, <<g, "ModLdr.dll">>)
             \/ Exists(F, <<g, "minhook.dll">>)
             \/ Exists(F, <<g, "XInput9_1_0.dll">>)
          THEN {"OMF_Some"} ELSE {})

CountFiles == /\ ops < MaxFileOps
              /\ ops' = ops + 1

\* Manager::unzipTo(zipLocation = zip, targetLocation = g)
Extract ==
    \E zip \in DOMAIN Zips, g \in GamePaths :
        LET ures == unzipTo(fs, zip, <<g>>)
        IN  /\ CountFiles
            /\ fs' = ures.fs
            /\ last' = [NoOp EXCEPT
                          !.op = "unzipTo", !.ok = ures.ok, !.err = ures.err, !.dir = g,
                          !.zip = zip, !.at = ures.at, !.before = fs,
                          !.fsChanged = ures.fs # fs]
            /\ UNCHANGED <<m_installations, m_sdkDirectory, m_sdkInstalled, m_dataDirectory,
                           m_dataLoaded, regKey, stateFile, written, fetchVars>>

\* Manager::doesDirectoryContainOtherMods(path = g), a const method
DetectOtherMods ==
    \E g \in GamePaths :
        /\ CountFiles
        /\ last' = [NoOp EXCEPT
                      !.op = "doesDirectoryContainOtherMods", !.dir = g,
                      !.flags = OtherModFlags(fs, g)]
        /\ UNCHANGED <<m_installations, m_sdkDirectory, m_sdkInstalled, m_dataDirectory,
                       m_dataLoaded, regKey, stateFile, fs, written, fetchVars>>

\* What the disk may hold before the installer touches it: nothing in the game
\* directories, the loader and the API, a file where the loader's directory
\* goes, or another tool's loader.
CleanDisk == Disk(AllPaths)
FileDirs == {
    CleanDisk,
    [CleanDisk EXCEPT ![GeodeDir("gdA")] = "dir", ![ModsDir("gdA")] = "dir",
                      ![ApiFile("gdA")] = "api", ![XInputDll("gdA")] = "xinput",
                      ![GeodeDll("gdA")] = "loader"],
    [CleanDisk EXCEPT ![GeodeDir("gdA")] = "junk"],
    [CleanDisk EXCEPT ![<<"gdA", "hackproldr.dll">>] = "mod"]
}

InitFilesOnly ==
    /\ InitPipe
    /\ m_installations = Constructed.installations
    /\ m_sdkDirectory = Constructed.sdkDirectory
    /\ m_sdkInstalled = Constructed.sdkInstalled
    /\ m_dataDirectory = Constructed.dataDirectory
    /\ m_dataLoaded = Constructed.dataLoaded
    /\ regKey = NoKey
    /\ stateFile = [d \in DataPaths |-> NoDir]
    /\ fs \in FileDirs
    /\ written = [d \in DataPaths |-> NotWritten]
    /\ last = NoOp
    /\ ops = 0

NextFiles == Extract \/ uninstallFrom \/ DetectOtherMods

SpecFiles == InitFilesOnly /\ [][NextFiles]_vars

----------------------------------------------------------------------------
(* The progress computation over everything the transport can report *)

MaxReported == 9     \* largest byte count the transport reports

\* The pipeline once downloadLoader's metadata request has completed and the
\* asset request of the first feed has been created.
DownloadUnderWay ==
    LET F0 == [f \in FetchIds |->
                 IF f = "loader"
                 THEN [kind |-> "loader", hasErr |-> TRUE, hasProg |-> TRUE, hasFin |-> TRUE]
                 ELSE NoFetch]
        S0 == [h |-> <<>>, r |-> <<>>, c |-> [f \in FetchIds |-> NoCalls], F |-> F0, e |-> <<>>]
        S1 == WebRequest(S0, "loader", "meta", <<"feed", "loader", 0>>, TRUE, 0)
    IN  Dispatch([S1 EXCEPT !.r[1] = Ended(@)], 1,
                 [Event("completed") EXCEPT !.resOk = TRUE, !.status = 200, !.created = TRUE])

InitPercent ==
    /\ handlers = DownloadUnderWay.h
    /\ fetches = DownloadUnderWay.F
    /\ reqs = DownloadUnderWay.r
    /\ calls = DownloadUnderWay.c
    /\ emitted = DownloadUnderWay.e
    /\ lastParse = NoParse
    /\ m_installations = Constructed.installations
    /\ m_sdkDirectory = Constructed.sdkDirectory
    /\ m_sdkInstalled = Constructed.sdkInstalled
    /\ m_dataDirectory = Constructed.dataDirectory
    /\ m_dataLoaded = Constructed.dataLoaded
    /\ regKey = NoKey
    /\ stateFile = [d \in DataPaths |-> NoDir]
    /\ fs = CleanDir
    /\ written = [d \in DataPaths |-> NotWritten]
    /\ last = NoOp
    /\ ops = 0

\* State_Active of the asset request with any byte counts: received from 0 up,
\* expected unknown (-1), zero or positive, in no relation to each other.
EvTransfer ==
    \E recv \in 0..MaxReported, exp \in -1..MaxReported, cast \in CastOutcomes :
        LET r == Len(reqs)
        IN  /\ Live(r)
            /\ reqs[r].actives < MaxActive
            /\ exp # 0 => cast = 0
            /\ SetPipe(Dispatch([Pipe EXCEPT !.r[r] = [@ EXCEPT !.st = "active", !.recv = recv,
                                                                 !.exp = exp, !.actives = @ + 1]],
                                r, [Event("active") EXCEPT !.cast = cast]))
            /\ lastParse' = NoParse
            /\ UNCHANGED regVars

SpecPercent == InitPercent /\ [][EvTransfer]_vars

(***************************************************************************)
(* Properties                                                              *)
(***************************************************************************)
Started(f) == fetches[f].kind # "none"
AllCallbacks(f) == fetches[f].hasErr /\ fetches[f].hasProg /\ fetches[f].hasFin
Quiescent == \A r \in 1..Len(reqs) : reqs[r].st = "done"

\* C1: a fetch started with all three callbacks gets at most one terminal
\* callback (error or completion), no callback after it, and exactly one once
\* all its requests have ended.
C1_ExactlyOneTerminal ==
    \A f \in FetchIds :
        Started(f) /\ AllCallbacks(f) =>
            /\ calls[f].errs + calls[f].fins <= 1
            /\ ~calls[f].late
            /\ Quiescent => calls[f].errs + calls[f].fins = 1

\* C2: the installations set never holds two records of one path.
C2_UniquePaths ==
    \A a \in m_installations : \A b \in m_installations : a.path = b.path => a = b

C2_Witness ==
    /\ last.op = "installLoaderFor" /\ last.ok /\ last.hadPath
    /\ Cardinality(m_installations) = 2

\* C3: after a successful installLoaderFor for e2 in a directory the set already
\* has a record for, the set's record for that directory is the returned (p, e2).
C3_InsertReplaces ==
    last.op = "installLoaderFor" /\ last.ok /\ last.hadPath =>
        {i \in m_installations : i.path = last.dir} = {last.inst}

\* C4: loadData of a malformed state file on a new Manager returns an error and
\* leaves the installations set empty.
C4_NoPartialLoad ==
    last.op = "loadData" /\ last.fresh /\ last.malformed =>
        /\ ~last.ok
        /\ m_installations = {}

FirstMatch(assets, sel) ==
    IF \E i \in 1..Len(assets) : Contains(assets[i].name, sel)
    THEN CHOOSE i \in 1..Len(assets) :
            /\ Contains(assets[i].name, sel)
            /\ \A j \in 1..(i - 1) : ~Contains(assets[j].name, sel)
    ELSE 0

WellTyped(feed) ==
    /\ feed.parses /\ feed.tagOk
    /\ \A i \in 1..Len(feed.assets) : feed.assets[i].nameOk /\ feed.assets[i].urlOk

\* C7: when the release feed parses, the one request issued is for the first
\* asset in feed order whose name contains the selector; with no such asset no
\* request is issued and the error callback gets the no-match message.
C7_FirstMatchingAsset ==
    lastParse.f # "none" /\ WellTyped(Feeds[lastParse.feed]) =>
        LET m == FirstMatch(Feeds[lastParse.feed].assets, Selector(lastParse.kind))
            errors == {i \in 1..Len(emitted) : emitted[i].cb = "error"}
        IN  IF m # 0
            THEN /\ lastParse.res = "match"
                 /\ lastParse.idx = m
                 /\ lastParse.added <= 1
                 /\ lastParse.added = 1 =>
                        /\ lastParse.url = <<"asset", lastParse.feed, m>>
                        /\ errors = {}
                 /\ lastParse.added = 0 =>
                        \A i \in errors : emitted[i].text = "Unable to create web request"
            ELSE /\ lastParse.res = "none"
                 /\ lastParse.added = 0
                 /\ fetches[lastParse.f].hasErr =>
                        /\ Cardinality(errors) = 1
                        /\ \A i \in errors :
                              /\ emitted[i].f = lastParse.f
                              /\ emitted[i].text = NoMatchText(lastParse.kind)

C7_Witness ==
    /\ lastParse.f # "none" /\ lastParse.kind = "loader"
    /\ lastParse.feed = 2 /\ lastParse.added = 1 /\ lastParse.idx = 2

\* C8: the progress calls of a fetch whose download has a known size start at
\* percent 0, never decrease, and have reached 100 when the fetch completes.
C8_ProgressReaches100 ==
    \A f \in FetchIds :
        Started(f) /\ AllCallbacks(f) /\ "Downloading" \in calls[f].labels =>
            /\ calls[f].firstPct = 0
            /\ calls[f].mono
            /\ calls[f].fins > 0 => calls[f].finPct = 100

\* C9: an installLoaderFor whose extraction fails returns the extraction's
\* error and leaves the installations set as it was.
C9_FailedInstallAddsNothing ==
    last.op = "installLoaderFor" /\ ~last.ok =>
        /\ ~last.instsChanged
        /\ last.inst = NoInst
        /\ \E e \in {"Unable to open zip", "Unable to read the zip entry",
                     "Unable to create file"} : last.err = LoaderUnzipError(e)

C9_Witness ==
    /\ last.op = "installLoaderFor" /\ ~last.ok /\ last.fsChanged
    /\ last.dir \notin PathsOf(m_installations)

\* C10: uninstallFrom succeeds, leaves none of geode/, XInput9_1_0.dll and
\* Geode.dll in the directory, and a second call changes nothing.
C10_UninstallIdempotent ==
    last.op = "uninstallFrom" =>
        /\ last.ok
        /\ LoaderFilesAbsent(fs, last.dir)
        /\ last.repeat => ~last.fsChanged

C10_Witness ==
    last.op = "uninstallFrom" /\ last.repeat /\ last.undone /\ ~last.fsChanged

\* C11: a step of uninstallFrom leaves the installations set, sdkDirectory,
\* sdkInstalled and dataDirectory as they were, so the record of the
\* uninstalled directory stays in the set.
C11_UninstallKeepsRegistry ==
    [][last'.op = "uninstallFrom" =>
          UNCHANGED <<m_installations, m_sdkDirectory, m_sdkInstalled, m_dataDirectory>>]_vars

C11_Witness ==
    /\ last.op = "uninstallFrom" /\ last.fsChanged
    /\ last.dir \in PathsOf(m_installations)
    /\ m_sdkInstalled

\* C16: uninstallSDK returns success exactly when it deleted the SDK directory
\* tree, and an error otherwise, also when there was no directory to delete.
C16_UninstallSDKFailsWhenMissing ==
    last.op = "uninstallSDK" =>
        /\ last.ok <=> last.fsChanged
        /\ last.ok => ~SdkExists(fs, last.dir)

\* C20: once uninstallSDK has succeeded, isSDKInstalled() is false.
C20_SdkStatusFollowsUninstall ==
    last.op = "uninstallSDK" /\ last.ok => ~isSDKInstalled

\* C14 as stated: a fetch whose requests never had a known size gets only
\* progress calls with percent 0 and the label "Beginning download".
C14_OnlyBeginningDownload ==
    \A f \in FetchIds :
        /\ Started(f)
        /\ \A r \in 1..Len(reqs) : reqs[r].by = f => reqs[r].exp = -1
        /\ "Downloading" \notin calls[f].labels
        => /\ calls[f].pcts \subseteq {0}
           /\ calls[f].labels \subseteq {"Beginning download"}

\* C14 amended: the progress call made for a State_Active event of a request
\* whose size is unknown is ("Beginning download", 0); a fetch that never got a
\* computed percentage gets only percent 0, under the labels "Downloading
\* version <tag>", "Waiting" and "Beginning download".
C14_UnknownSizeProgress ==
    /\ \A i \in 1..Len(emitted) :
          /\ emitted[i].cb = "progress" /\ emitted[i].req # 0
          /\ reqs[emitted[i].req].st = "active" /\ reqs[emitted[i].req].exp = -1
          => emitted[i].text = "Beginning download" /\ emitted[i].percent = 0
    /\ \A f \in FetchIds :
          Started(f) /\ "Downloading" \notin calls[f].labels =>
              /\ calls[f].pcts \subseteq {0}
              /\ calls[f].labels \subseteq
                     {"Downloading version", "Waiting", "Beginning download"}

C14_Witness ==
    \E i \in 1..Len(emitted) :
        /\ emitted[i].cb = "progress" /\ emitted[i].text = "Beginning download"
        /\ reqs[emitted[i].req].exp = -1
        /\ calls[emitted[i].f].labels =
               {"Downloading version", "Waiting", "Beginning download"}

\* C15: every progress call carries a percent in 0..100, and for a known size
\* the percent is received / expected * 100 rounded down.
C15_PercentInRange ==
    \A i \in 1..Len(emitted) :
        emitted[i].cb = "progress" =>
            /\ emitted[i].percent \in 0..100
            /\ emitted[i].text = "Downloading" /\ reqs[emitted[i].req].exp > 0 =>
                   emitted[i].percent =
                       (reqs[emitted[i].req].recv * 100) \div reqs[emitted[i].req].exp

\* C18: no callback of a fetch is invoked for an event of a request that
\* another fetch issued.
C18_CallbacksIsolated ==
    \A f \in FetchIds : ~calls[f].foreign

\* C17: doesDirectoryContainOtherMods returns a non-empty flag set exactly when
\* a file of another mod-loading tool is in the directory; this loader's own
\* files (geode/, XInput9_1_0.dll, Geode.dll) alone give the empty set.
C17_FlagsOnlyForOtherTools ==
    last.op = "doesDirectoryContainOtherMods" =>
        (last.flags # {} <=> \E n \in MarkerFiles : Exists(fs, <<last.dir, n>>))

\* C19: every file or directory unzipTo creates or overwrites lies inside
\* targetLocation, whatever the entry names of the archive are.
C19_ExtractionConfined ==
    last.op = "unzipTo" =>
        \A p \in DOMAIN fs : fs[p] # last.before[p] => IsPrefix(<<last.dir>>, p)

\* The path entry i of the archive of the last extraction was written to.
EntryPath(i) == Resolve(<<last.dir>> \o Zips[last.zip].entries[i].name)

\* C12: after a successful extraction every directory entry is a directory and
\* every file entry is a file with the entry's content (the last entry of a
\* path wins), and extracting the archive again changes nothing.
C12_ExtractionMaterializes ==
    last.op = "unzipTo" /\ last.ok =>
        LET es == Zips[last.zip].entries
            again == unzipTo(fs, last.zip, <<last.dir>>)
        IN  /\ \A i \in 1..Len(es) :
                  IF es[i].isDir THEN fs[EntryPath(i)] = "dir"
                  ELSE (\A j \in (i + 1)..Len(es) : EntryPath(j) # EntryPath(i))
                       => fs[EntryPath(i)] = es[i].data
            /\ again.ok /\ again.fs = fs

\* An entry the extraction cannot carry out: a file entry whose data cannot be
\* read to its end, a directory entry where a file is in the way.
FailingEntry(i) ==
    LET e == Zips[last.zip].entries[i]
    IN  IF e.isDir THEN last.before[EntryPath(i)] \notin {"none", "dir"}
        ELSE ~e.canRead \/ e.streams # "all"

\* C13: an extraction of an archive with a failing entry returns an error at
\* that entry or before it, and no entry after the one the error names has
\* been written.
C13_AbortsOnFirstFailure ==
    last.op = "unzipTo" /\ Zips[last.zip].opens =>
        LET es == Zips[last.zip].entries
        IN  \A i \in 1..Len(es) :
                FailingEntry(i) =>
                    /\ ~last.ok
                    /\ last.at \in 1..i
                    /\ \A j \in (last.at + 1)..Len(es) :
                           (\A k \in 1..last.at : ~IsPrefix(EntryPath(j), EntryPath(k)))
                           => fs[EntryPath(j)] = last.before[EntryPath(j)]

====
